---- MODULE Spec2Model ----
(***************************************************************************)
(* A model of the investment advisor's agents:                             *)
(*   RiskAssessmentAgent.assess_universe   (agents/risk_assessment_agent)  *)
(*   PortfolioGeneratorAgent.generate_portfolio (agents/portfolio_...)     *)
(*   CrewOrchestrator.run                  (agents/crew_orchestrator)      *)
(*                                                                         *)
(* Numbers.  Floats are modelled by exact scaled integers:                 *)
(*   money  (budget, price, allocated, remaining) in units of 1/Cent of a  *)
(*          cent.  Cent is odd, so round(x, 2) never meets a tie and the   *)
(*          tie-breaking of binary floats does not have to be modelled;    *)
(*   volatility in units of 1e-7, so that the 1e-6 of the 'high' branch is *)
(*          VolEps = 10 and smaller positive volatilities exist;           *)
(*   a weight is nums[i] / den, an exact fraction.                         *)
(* NaN is a reserved value outside every range the model uses.             *)
(***************************************************************************)
EXTENDS Integers, Sequences, FiniteSets, TLC

VARIABLES pc, budget, risk_level, top_n, prices_df, risk_report,
          vol, chosen, weights, portfolio,
          universe, requested, fetched, calls, explanation, prices_json,
          result

genVars == <<budget, risk_level, top_n, prices_df, risk_report,
             vol, chosen, weights, portfolio>>
runVars == <<universe, requested, fetched, calls, explanation, prices_json,
             result>>
vars == <<pc, genVars, runVars>>

(***************************************************************************)
(* Values                                                                  *)
(***************************************************************************)
NaN == -999
PyNone == -998
Cent == 5
VolEps == 10
Micro == 1000000

TopNDefault == 5

MaxTopN == 3

Tickers == {"A", "B", "C"}
VolVals == {-5, 0, 1, 20}
HistVolVals == {0, 20}
PriceVals == {0, 4}
Budgets == {0, 12, 25}
RiskLevels == {"low", "moderate", "high", "aggressive"}

RECURSIVE SeqSum(_)
SeqSum(s) == IF s = <<>> THEN 0 ELSE Head(s) + SeqSum(Tail(s))

Range(s) == {s[i] : i \in DOMAIN s}

Min(a, b) == IF a <= b THEN a ELSE b

\* round(x, 2): to the nearest cent (Cent is odd: no ties; \div floors).
Round2(x) == ((2 * x + Cent) \div (2 * Cent)) * Cent

\* round(num / den, 6), in millionths.
Round6(num, den) == (2 * num * Micro + den) \div (2 * den)

\* Series.fillna(0.0) on one value.
FillNa(v) == IF v = NaN THEN 0 ELSE v

(***************************************************************************)
(* A price table is [isNone, cols, rows, last]: the columns, the number of *)
(* rows and the last row.  DataFrame.empty holds when either axis is       *)
(* empty.  The rest of the history is read only by pct_change().std(),     *)
(* whose value the callers draw from HistVols.                             *)
(***************************************************************************)
\* A variant of IsEmpty that looks at the columns only.
IsEmptyColumnsOnly(df) == df.cols = {}

IsEmpty(df) == df.cols = {} \/ df.rows = 0

\* returns.std() * sqrt(252) over the columns: any non-negative value or NaN.
HistVols(df) == [df.cols -> HistVolVals \cup {NaN}]

(***************************************************************************)
(* PortfolioGeneratorAgent                                                 *)
(***************************************************************************)
\* A variant of SanitizeTickers that keeps every ticker of the series.
SanitizeTickersAll(df, series) == DOMAIN series

\* _sanitize_tickers: the tickers of the volatility series that are columns.
SanitizeTickers(df, series) == {t \in DOMAIN series : t \in df.cols}

\* vol.reindex(available).fillna(0.0)
Reindex(series, available) ==
    [t \in available |-> IF t \in DOMAIN series THEN FillNa(series[t]) ELSE 0]

\* risk_report.get('volatility', {})
GetVolatility(report) ==
    IF "volatility" \in report.keys THEN report.volatility ELSE <<>>

\* Lines 45-53: the report's volatility mapping, or when it is empty what
\* pct_change().std() gives for the table.
VolSeries(df, report) ==
    IF DOMAIN GetVolatility(report) = {} THEN HistVols(df)
    ELSE {GetVolatility(report)}

\* Lines 56-62: the series restricted to the table's tickers, or all the
\* table's tickers when none is shared.
ResolvedVol(df, series) ==
    LET available == SanitizeTickers(df, series)
    IN IF available = {} THEN Reindex(series, df.cols)
                         ELSE Reindex(series, available)

\* vol.sort_values(ascending=True): the index in ascending order of value.
\* The default sort is not stable: equal values come in any order.
SortValues(series) ==
    LET n == Cardinality(DOMAIN series)
    IN {s \in [1..n -> DOMAIN series] :
            /\ \A i, j \in 1..n : i # j => s[i] # s[j]
            /\ \A i, j \in 1..n : i < j => series[s[i]] <= series[s[j]]}

LastN(s, k) == SubSeq(s, Len(s) - k + 1, Len(s))

\* A variant of Choose whose mixed branch rounds the low count up.
ChooseLowHeavy(level, ranked, n) ==
    IF level = "low" THEN SubSeq(ranked, 1, n)
    ELSE IF level = "high" THEN LastN(ranked, n)
    ELSE LET low_count == (n + 1) \div 2
             high_count == n - low_count
             low == SubSeq(ranked, 1, low_count)
             high == IF high_count > 0 THEN LastN(ranked, high_count) ELSE <<>>
         IN IF Len(low \o high) = 0 THEN SubSeq(ranked, 1, n) ELSE low \o high

\* Lines 78-106, selection.
Choose(level, ranked, n) ==
    IF level = "low" THEN SubSeq(ranked, 1, n)
    ELSE IF level = "high" THEN LastN(ranked, n)
    ELSE LET low_count == n \div 2
             high_count == n - low_count
             low == SubSeq(ranked, 1, low_count)
             high == IF high_count > 0 THEN LastN(ranked, high_count) ELSE <<>>
         IN IF Len(low \o high) = 0 THEN SubSeq(ranked, 1, n) ELSE low \o high

Ones(k) == [i \in 1..k |-> 1]

\* np.where(vols <= 0, 1e-6, vols)
ClampVol(v) == IF v <= 0 THEN VolEps ELSE v

\* A variant of RawWeights whose 'low' branch weights every ticker equally.
RawWeightsEven(level, sel, series, n) ==
    IF level = "low" THEN [nums |-> Ones(n), den |-> n]
    ELSE IF level = "high" THEN
        LET vols == [i \in 1..Len(sel) |-> ClampVol(series[sel[i]])]
        IN IF SeqSum(vols) = 0 THEN [nums |-> Ones(Len(sel)), den |-> Len(sel)]
           ELSE [nums |-> vols, den |-> SeqSum(vols)]
    ELSE [nums |-> Ones(Len(sel)), den |-> Len(sel)]

\* Lines 78-106, weighting: weight i is nums[i] / den.
RawWeights(level, sel, series, n) ==
    IF level = "low" THEN
        IF n = 1 THEN [nums |-> <<1>>, den |-> 1]
        ELSE [nums |-> <<4 * (n - 1)>> \o Ones(n - 1), den |-> 5 * (n - 1)]
    ELSE IF level = "high" THEN
        LET vols == [i \in 1..Len(sel) |-> ClampVol(series[sel[i]])]
        IN IF SeqSum(vols) = 0 THEN [nums |-> Ones(Len(sel)), den |-> Len(sel)]
           ELSE [nums |-> vols, den |-> SeqSum(vols)]
    ELSE [nums |-> Ones(Len(sel)), den |-> Len(sel)]

\* Lines 108-113: weights / weights.sum(), equal weights when the sum is 0.
Normalize(w) ==
    IF SeqSum(w.nums) = 0
    THEN [nums |-> Ones(Len(w.nums)), den |-> Len(w.nums)]
    ELSE [nums |-> w.nums, den |-> SeqSum(w.nums)]

\* A variant of Shares that rounds to the nearest share instead of down.
SharesNearest(b, num, den, price) ==
    IF price = NaN \/ price <= 0 THEN 0
    ELSE (2 * b * num + den * price) \div (2 * den * price)

\* Lines 121-128: shares and cost of one holding.
Shares(b, num, den, price) ==
    IF price = NaN \/ price <= 0 THEN 0 ELSE (b * num) \div (den * price)

AllocatedAmt(shares, price) ==
    IF price = NaN \/ price <= 0 THEN 0 ELSE Round2(shares * price)

\* Lines 120-135: one element of the allocation list.
Holding(b, df, ticker, num, den) ==
    LET price == IF ticker \in df.cols THEN df.last[ticker] ELSE NaN
        shares == Shares(b, num, den, price)
    IN [ticker |-> ticker,
        weight |-> Round6(num, den),
        price |-> IF price = NaN THEN PyNone ELSE price,
        shares |-> shares,
        allocated |-> AllocatedAmt(shares, price)]

Allocation(b, df, sel, w) ==
    [i \in 1..Len(sel) |-> Holding(b, df, sel[i], w.nums[i], w.den)]

\* A variant of Remaining that does not charge the first holding.
RECURSIVE RemainingSkipsFirst(_, _)
RemainingSkipsFirst(b, hs) ==
    IF Len(hs) <= 1 THEN b
    ELSE RemainingSkipsFirst(b, SubSeq(hs, 1, Len(hs) - 1)) - hs[Len(hs)].allocated

\* Lines 119, 136: remaining -= allocated_amt over the holdings.
RECURSIVE Remaining(_, _)
Remaining(b, hs) ==
    IF hs = <<>> THEN b
    ELSE Remaining(b, SubSeq(hs, 1, Len(hs) - 1)) - hs[Len(hs)].allocated

\* A portfolio is a dict: keys holds the keys it has, error is "" without
\* the 'error' key.
PortfolioKeys == {"budget", "allocated", "remaining", "holdings"}

\* Lines 36-42 and 69-75.
ErrorPortfolio(b, msg) ==
    [keys |-> PortfolioKeys \cup {"error"},
     budget |-> b, allocated |-> 0, remaining |-> Round2(b),
     holdings |-> <<>>, error |-> msg]

\* Lines 138-143.
Assemble(b, hs) ==
    LET remaining == Remaining(b, hs)
    IN [keys |-> PortfolioKeys,
        budget |-> Round2(b),
        allocated |-> Round2(b - remaining),
        remaining |-> Round2(remaining),
        holdings |-> hs,
        error |-> ""]

(***************************************************************************)
(* generate_portfolio(budget, risk_level, prices_df, risk_report): the     *)
(* results it can return, each with the locals chosen and weights.         *)
(***************************************************************************)
NoWeights == [nums |-> <<>>, den |-> 1]

Degenerate(b, msg, series) ==
    [portfolio |-> ErrorPortfolio(b, msg), vol |-> series,
     chosen |-> <<>>, weights |-> NoWeights]

\* Lines 67-144 for one ranking.
Build(b, level, topn, df, series, ranked) ==
    LET n == Min(topn, Len(ranked))
        sel == Choose(level, ranked, n)
        w == Normalize(RawWeights(level, sel, series, n))
    IN IF n = 0
       THEN Degenerate(b, "No tickers available after filtering", series)
       ELSE [portfolio |-> Assemble(b, Allocation(b, df, sel, w)),
             vol |-> series, chosen |-> sel, weights |-> w]

GeneratePortfolio(b, level, topn, df, report) ==
    IF df.isNone \/ IsEmpty(df)
    THEN {Degenerate(b, "No price data available", <<>>)}
    ELSE UNION {{Build(b, level, topn, df, ResolvedVol(df, series), ranked) :
                    ranked \in SortValues(ResolvedVol(df, series))} :
                series \in VolSeries(df, report)}

(***************************************************************************)
(* RiskAssessmentAgent.assess_universe.  hist is returns.std() * sqrt(252) *)
(* for the table.  The rank of a value is the average of the positions its *)
(* ties take in ascending order (pandas' default), here twice that; the    *)
(* risk score is rank / len(vol), the fraction num / den.  The drawdown    *)
(* and summary entries are not modelled.                                   *)
(***************************************************************************)
\* A variant of Rank2 that ranks in descending order.
Rank2Descending(series, t) ==
    2 * Cardinality({u \in DOMAIN series : series[u] > series[t]})
    + Cardinality({u \in DOMAIN series : series[u] = series[t]}) + 1

Rank2(series, t) ==
    2 * Cardinality({u \in DOMAIN series : series[u] < series[t]})
    + Cardinality({u \in DOMAIN series : series[u] = series[t]}) + 1

\* Line 16: vol.fillna(0)
FilledVol(df, hist) == [t \in df.cols |-> FillNa(hist[t])]

\* Line 17: vol.rank(ascending=True) / len(vol)
RiskScore(series) ==
    [t \in DOMAIN series |->
        [num |-> Rank2(series, t), den |-> 2 * Cardinality(DOMAIN series)]]

AssessUniverse(df, hist) ==
    [keys |-> {"volatility", "drawdown", "risk_score", "summary"},
     volatility |-> FilledVol(df, hist),
     risk_score |-> RiskScore(FilledVol(df, hist))]

(***************************************************************************)
(* Direct calls of generate_portfolio                                      *)
(***************************************************************************)
NoTable == [isNone |-> TRUE, cols |-> {}, rows |-> 0, last |-> <<>>]
NoReport == [keys |-> {}, volatility |-> <<>>, risk_score |-> <<>>]
NoPortfolio ==
    [keys |-> {}, budget |-> 0, allocated |-> 0, remaining |-> 0,
     holdings |-> <<>>, error |-> ""]
NoText == [text |-> "", tickers |-> <<>>]
NoResult ==
    [keys |-> {}, portfolio |-> NoPortfolio, risk_report |-> NoReport,
     explanation |-> NoText, prices |-> {}, error |-> ""]

\* The tables of a direct call: absent, without columns, without rows, or
\* with one to three columns and a last row.
Columns == {{}, {"A"}, {"A", "B"}, {"A", "B", "C"}}

GenTables ==
    {NoTable}
    \cup {[isNone |-> FALSE, cols |-> c, rows |-> 0, last |-> [t \in c |-> NaN]] :
             c \in Columns}
    \cup UNION {{[isNone |-> FALSE, cols |-> c, rows |-> 1, last |-> l] :
                    l \in [c -> PriceVals \cup {NaN}]} : c \in Columns}

\* The risk reports of a direct call: any volatility mapping over Tickers.
GenReports ==
    UNION {{[keys |-> {"volatility"}, volatility |-> v, risk_score |-> <<>>] :
               v \in [d -> VolVals]} : d \in SUBSET Tickers}
    \cup {NoReport}

InitGen ==
    /\ pc = "call"
    /\ budget \in Budgets
    /\ risk_level \in RiskLevels
    /\ top_n \in 0..MaxTopN
    /\ prices_df \in GenTables
    /\ risk_report \in GenReports
    /\ vol = <<>>
    /\ chosen = <<>>
    /\ weights = NoWeights
    /\ portfolio = NoPortfolio
    /\ universe = [kind |-> "none", items |-> <<>>]
    /\ requested = <<>>
    /\ fetched = NoTable
    /\ calls = <<>>
    /\ explanation = NoText
    /\ prices_json = {}
    /\ result = NoResult

CallGenerate ==
    /\ pc = "call"
    /\ pc' = "returned"
    /\ \E r \in GeneratePortfolio(budget, risk_level, top_n, prices_df, risk_report) :
          /\ portfolio' = r.portfolio
          /\ vol' = r.vol
          /\ chosen' = r.chosen
          /\ weights' = r.weights
    /\ UNCHANGED <<budget, risk_level, top_n, prices_df, risk_report, runVars>>

NextGen == CallGenerate

SpecGen == InitGen /\ [][NextGen]_vars

(***************************************************************************)
(* CrewOrchestrator.run, one step per try block.  calls logs the agent     *)
(* calls made and whether each returned (ok) or raised.  A universe is     *)
(* None, a string given by its pieces between commas, or a list of items.  *)
(***************************************************************************)
\* str.strip() and str.upper() on the strings the model uses.
Strip(u) == CASE u = " " -> "" [] u = " b" -> "b" [] OTHER -> u
Upper(u) ==
    CASE u = "a" -> "A" [] u = "b" -> "B" [] u = " b" -> " B"
      [] u = "z" -> "Z" [] OTHER -> u

RECURSIVE Filtered(_, _)
\* [f(u) for u in items if f(u)] with f = strip (strip = TRUE) or identity.
Filtered(items, strip) ==
    IF items = <<>> THEN <<>>
    ELSE LET u == IF strip THEN Strip(Head(items)) ELSE Head(items)
         IN (IF u = "" THEN <<>> ELSE <<u>>) \o Filtered(Tail(items), strip)

\* A variant of _normalize_requested_universe that keeps the case.
NormalizeKeepCase(u) ==
    IF u.kind = "none" \/ u.items = <<>> \/ (u.kind = "str" /\ u.items = <<"">>)
    THEN <<>>
    ELSE Filtered(Filtered(u.items, u.kind = "str"), FALSE)

\* _normalize_requested_universe
NormalizeRequestedUniverse(u) ==
    IF u.kind = "none" \/ u.items = <<>> \/ (u.kind = "str" /\ u.items = <<"">>)
    THEN <<>>
    ELSE LET items == Filtered(Filtered(u.items, u.kind = "str"), FALSE)
         IN [i \in DOMAIN items |-> Upper(items[i])]

\* df[available_cols]
Restrict(df, keep) ==
    [isNone |-> FALSE, cols |-> keep, rows |-> df.rows,
     last |-> [t \in keep |-> df.last[t]]]

\* Lines 70-79.
FilterRequested(df, req) ==
    LET available_cols == {c \in df.cols : Upper(c) \in Range(req)}
    IN IF req # <<>> /\ available_cols # {} THEN Restrict(df, available_cols)
       ELSE df

\* Line 86, line 93, line 100, lines 62-68: what replaces a failed step.
FailedReport ==
    [keys |-> {"volatility", "summary"}, volatility |-> <<>>, risk_score |-> <<>>]
FailedPortfolio(b) ==
    [keys |-> PortfolioKeys, budget |-> b, allocated |-> 0, remaining |-> b,
     holdings |-> <<>>, error |-> ""]
FailedText == [text |-> "AI explanation unavailable.", tickers |-> <<>>]
ResultKeys == {"portfolio", "risk_report", "explanation", "prices"}
MarketFetchFailed ==
    [keys |-> ResultKeys \cup {"error"}, portfolio |-> NoPortfolio,
     risk_report |-> NoReport,
     explanation |-> [text |-> "Failed to fetch market data", tickers |-> <<>>],
     prices |-> {}, error |-> "market_fetch_failed"]

\* explain_portfolio without an LLM: the tickers of portfolio.get('holdings', []).
ExplainPortfolio(p) ==
    [text |-> "Selected tickers",
     tickers |-> IF "holdings" \in p.keys
                 THEN [i \in DOMAIN p.holdings |-> p.holdings[i].ticker]
                 ELSE <<>>]

\* prices_to_json: a key per column and 'dates'.
PricesToJson(df) == df.cols \cup {"dates"}

Call(step, ok) == [step |-> step, ok |-> ok]

\* The tables a fetch can return: never empty (fetch_universe_prices raises).
RunColumns == {{"A"}, {"A", "b"}, {"A", "b", "C"}}
RunTables ==
    UNION {{[isNone |-> FALSE, cols |-> c, rows |-> 1, last |-> l] :
               l \in [c -> {4, NaN}]} : c \in RunColumns}

Universes ==
    {[kind |-> "none", items |-> <<>>],
     [kind |-> "str", items |-> <<"">>],
     [kind |-> "str", items |-> <<"a", " b">>],
     [kind |-> "str", items |-> <<" ", "z">>],
     [kind |-> "list", items |-> <<>>],
     [kind |-> "list", items |-> <<"a">>],
     [kind |-> "list", items |-> <<"", "b", "C">>],
     [kind |-> "list", items |-> <<" b">>],
     [kind |-> "list", items |-> <<"z">>]}

InitRun ==
    /\ pc = "run"
    /\ universe \in Universes
    /\ budget \in {12, 25}
    /\ risk_level \in RiskLevels
    /\ top_n = TopNDefault
    /\ prices_df = NoTable
    /\ risk_report = NoReport
    /\ vol = <<>>
    /\ chosen = <<>>
    /\ weights = NoWeights
    /\ portfolio = NoPortfolio
    /\ requested = <<>>
    /\ fetched = NoTable
    /\ calls = <<>>
    /\ explanation = NoText
    /\ prices_json = {}
    /\ result = NoResult

\* Lines 50-57: normalise, then fetch the requested universe.
FetchRequested ==
    /\ pc = "run"
    /\ requested' = NormalizeRequestedUniverse(universe)
    /\ \/ /\ \E t \in RunTables : fetched' = t /\ prices_df' = t
          /\ calls' = Append(calls, Call("fetch_requested", TRUE))
          /\ pc' = "filter"
       \/ /\ calls' = Append(calls, Call("fetch_requested", FALSE))
          /\ pc' = "fallback"
          /\ UNCHANGED <<fetched, prices_df>>
    /\ UNCHANGED <<budget, risk_level, top_n, risk_report, vol, chosen, weights,
                   portfolio, universe, explanation, prices_json, result>>

\* Lines 59-68: the default universe, after the requested fetch raised.
FetchDefault ==
    /\ pc = "fallback"
    /\ \/ /\ \E t \in RunTables : fetched' = t /\ prices_df' = t
          /\ calls' = Append(calls, Call("fetch_default", TRUE))
          /\ pc' = "filter"
          /\ UNCHANGED result
       \/ /\ calls' = Append(calls, Call("fetch_default", FALSE))
          /\ result' = MarketFetchFailed
          /\ pc' = "done"
          /\ UNCHANGED <<fetched, prices_df>>
    /\ UNCHANGED <<budget, risk_level, top_n, risk_report, vol, chosen, weights,
                   portfolio, universe, requested, explanation, prices_json>>

\* Lines 70-79.
Filter ==
    /\ pc = "filter"
    /\ prices_df' = FilterRequested(prices_df, requested)
    /\ pc' = "risk"
    /\ UNCHANGED <<budget, risk_level, top_n, risk_report, vol, chosen, weights,
                   portfolio, runVars>>

\* Lines 82-86.
Assess ==
    /\ pc = "risk"
    /\ \/ /\ \E hist \in HistVols(prices_df) :
                risk_report' = AssessUniverse(prices_df, hist)
          /\ calls' = Append(calls, Call("assess_universe", TRUE))
       \/ /\ risk_report' = FailedReport
          /\ calls' = Append(calls, Call("assess_universe", FALSE))
    /\ pc' = "portfolio"
    /\ UNCHANGED <<budget, risk_level, top_n, prices_df, vol, chosen, weights,
                   portfolio, universe, requested, fetched, explanation,
                   prices_json, result>>

\* Lines 89-93.
Generate ==
    /\ pc = "portfolio"
    /\ \/ /\ \E r \in GeneratePortfolio(budget, risk_level, top_n, prices_df,
                                        risk_report) :
                /\ portfolio' = r.portfolio
                /\ vol' = r.vol
                /\ chosen' = r.chosen
                /\ weights' = r.weights
          /\ calls' = Append(calls, Call("generate_portfolio", TRUE))
       \/ /\ portfolio' = FailedPortfolio(budget)
          /\ calls' = Append(calls, Call("generate_portfolio", FALSE))
          /\ UNCHANGED <<vol, chosen, weights>>
    /\ pc' = "explain"
    /\ UNCHANGED <<budget, risk_level, top_n, prices_df, risk_report, universe,
                   requested, fetched, explanation, prices_json, result>>

\* A variant of Explain that lets the explainer's exception through.
ExplainUncaught ==
    /\ pc = "explain"
    /\ \/ /\ explanation' = ExplainPortfolio(portfolio)
          /\ calls' = Append(calls, Call("explain_portfolio", TRUE))
          /\ pc' = "json"
       \/ /\ UNCHANGED explanation
          /\ calls' = Append(calls, Call("explain_portfolio", FALSE))
          /\ pc' = "raised"
    /\ UNCHANGED <<genVars, universe, requested, fetched, prices_json, result>>

\* Lines 96-100.
Explain ==
    /\ pc = "explain"
    /\ \/ /\ explanation' = ExplainPortfolio(portfolio)
          /\ calls' = Append(calls, Call("explain_portfolio", TRUE))
       \/ /\ explanation' = FailedText
          /\ calls' = Append(calls, Call("explain_portfolio", FALSE))
    /\ pc' = "json"
    /\ UNCHANGED <<genVars, universe, requested, fetched, prices_json, result>>

\* Lines 103-114: the prices for the frontend, and the result.
PricesJsonAndReturn ==
    /\ pc = "json"
    /\ \/ /\ prices_json' = PricesToJson(prices_df)
          /\ calls' = Append(calls, Call("prices_to_json", TRUE))
       \/ /\ prices_json' = {}
          /\ calls' = Append(calls, Call("prices_to_json", FALSE))
    /\ result' = [keys |-> ResultKeys, portfolio |-> portfolio,
                  risk_report |-> risk_report, explanation |-> explanation,
                  prices |-> prices_json', error |-> ""]
    /\ pc' = "done"
    /\ UNCHANGED <<genVars, universe, requested, fetched, explanation>>

NextRun ==
    \/ FetchRequested
    \/ FetchDefault
    \/ Filter
    \/ Assess
    \/ Generate
    \/ Explain
    \/ PricesJsonAndReturn

SpecRun == InitRun /\ [][NextRun]_vars

(***************************************************************************)
(* Properties of generate_portfolio                                        *)
(***************************************************************************)
Returned == pc = "returned"
NonEmptyTable ==
    ~prices_df.isNone /\ prices_df.cols # {} /\ prices_df.rows > 0
Holdings == portfolio.holdings
HoldingTickers == [i \in DOMAIN Holdings |-> Holdings[i].ticker]
RECURSIVE SumAllocated(_)
SumAllocated(hs) ==
    IF hs = <<>> THEN 0 ELSE Head(hs).allocated + SumAllocated(Tail(hs))
\* The last price of a ticker, NaN when the table has none.
LastPrice(t) == IF t \in prices_df.cols THEN prices_df.last[t] ELSE NaN
Priced(t) == LastPrice(t) # NaN /\ LastPrice(t) > 0
\* N = min(top_n, universe size) for the resolved universe DOMAIN vol.
SelectionSize == Min(top_n, Cardinality(DOMAIN vol))

\* C1: for budget >= 0, top_n >= 1 and a non-empty price table, the returned
\* portfolio never overspends: every share count is a non-negative integer,
\* 0 <= allocated <= budget and remaining >= 0.
C1_NeverOverspends ==
    (Returned /\ NonEmptyTable /\ top_n >= 1) =>
        /\ \A i \in DOMAIN Holdings : Holdings[i].shares \in Nat
        /\ 0 <= portfolio.allocated
        /\ portfolio.allocated <= portfolio.budget
        /\ portfolio.remaining >= 0

\* C2: every returned portfolio, the zero-holding error outputs included, has
\* allocated + remaining equal to budget to the cent, and allocated equal to
\* the sum of its holdings' allocated amounts.
C2_BudgetAccounting ==
    Returned =>
        /\ Round2(portfolio.allocated + portfolio.remaining) = Round2(portfolio.budget)
        /\ Round2(portfolio.allocated + portfolio.remaining) = Round2(budget)
        /\ portfolio.allocated = SumAllocated(Holdings)

\* C2 witness: a budget that is not a whole number of cents is spread over two
\* holdings that both buy shares.
C2_Witness ==
    /\ Returned
    /\ budget = 12
    /\ Len(Holdings) >= 2
    /\ \A i \in DOMAIN Holdings : Holdings[i].allocated > 0

\* C3 as stated: a holding whose last price is known and positive has
\* shares = floor(budget * weight / price) and allocated = shares * price;
\* a holding without such a price has 0 shares, allocated 0 and stays listed.
C3_AllocatedIsSharesTimesPrice ==
    Returned =>
        /\ Len(Holdings) = Len(chosen)
        /\ \A i \in DOMAIN Holdings :
             LET h == Holdings[i]
                 p == LastPrice(h.ticker)
             IN IF Priced(h.ticker)
                THEN /\ h.shares * p * weights.den <= budget * weights.nums[i]
                     /\ (h.shares + 1) * p * weights.den > budget * weights.nums[i]
                     /\ h.allocated = h.shares * p
                ELSE h.shares = 0 /\ h.allocated = 0

\* C3 amended: as C3, with allocated = round(shares * price, 2); weight is the
\* normalised weight nums[i] / den before its rounding to 6 decimals.  When
\* budget * weight < price the holding has 0 shares and allocated 0.
C3_SharesFloorAllocatedRounded ==
    Returned =>
        /\ Len(Holdings) = Len(chosen)
        /\ \A i \in DOMAIN Holdings :
             LET h == Holdings[i]
                 p == LastPrice(h.ticker)
             IN /\ h.ticker = chosen[i]
                /\ IF Priced(h.ticker)
                   THEN /\ h.shares \in Nat
                        /\ h.shares * p * weights.den <= budget * weights.nums[i]
                        /\ (h.shares + 1) * p * weights.den > budget * weights.nums[i]
                        /\ h.allocated = Round2(h.shares * p)
                        /\ (budget * weights.nums[i] < p * weights.den)
                              => (h.shares = 0 /\ h.allocated = 0)
                   ELSE h.shares = 0 /\ h.allocated = 0

\* C3 witness: one holding buys shares whose cost is not a whole number of
\* cents, another is priced above its amount, a third has no usable price.
C3_Witness ==
    /\ Returned
    /\ \E i, j, k \in DOMAIN Holdings :
          /\ Holdings[i].shares >= 1
          /\ Holdings[i].allocated # Holdings[i].shares * LastPrice(Holdings[i].ticker)
          /\ Priced(Holdings[j].ticker) /\ Holdings[j].shares = 0
          /\ ~Priced(Holdings[k].ticker)

\* C4 as stated: with an empty or absent price table the call returns a
\* portfolio with no holdings, allocated 0, remaining equal to budget and an
\* error marker; the error key appears only with no holdings, when the table
\* was empty or the selection size was 0.
C4_EmptyTableRemainingIsBudget ==
    Returned =>
        /\ ~NonEmptyTable =>
              /\ Holdings = <<>>
              /\ portfolio.allocated = 0
              /\ portfolio.remaining = budget
              /\ "error" \in portfolio.keys
        /\ "error" \in portfolio.keys =>
              /\ Holdings = <<>>
              /\ ~NonEmptyTable \/ SelectionSize = 0

\* C4 amended: as C4, with remaining equal to round(budget, 2).
C4_EmptyTableError ==
    Returned =>
        /\ ~NonEmptyTable =>
              /\ Holdings = <<>>
              /\ portfolio.allocated = 0
              /\ portfolio.remaining = Round2(budget)
              /\ "error" \in portfolio.keys
              /\ portfolio.error # ""
        /\ "error" \in portfolio.keys =>
              /\ Holdings = <<>>
              /\ ~NonEmptyTable \/ SelectionSize = 0
        /\ (NonEmptyTable /\ SelectionSize > 0) =>
              /\ "error" \notin portfolio.keys
              /\ Holdings # <<>>

\* C4 witness: a table with columns and no rows was passed, with a budget
\* that is not a whole number of cents.
C4_Witness ==
    /\ Returned
    /\ ~prices_df.isNone /\ prices_df.cols # {} /\ prices_df.rows = 0
    /\ budget = 12
    /\ "error" \in portfolio.keys

\* The resolved universe of C7: the price columns that are volatility keys,
\* or all price columns when there is none.
ResolvedUniverse ==
    LET shared == prices_df.cols \cap DOMAIN GetVolatility(risk_report)
    IN IF ~NonEmptyTable THEN {}
       ELSE IF shared = {} THEN prices_df.cols ELSE shared

C9_ModerateSplit ==
    (Returned /\ risk_level \notin {"low", "high"} /\ NonEmptyTable
        /\ SelectionSize >= 1) =>
        LET N == SelectionSize
            lc == N \div 2
            lows == {chosen[i] : i \in 1..lc}
            highs == {chosen[i] : i \in (lc + 1)..N}
        IN /\ Len(chosen) = N
           /\ HoldingTickers = chosen
           /\ Cardinality(Range(chosen)) = N
           /\ lows \cap highs = {}
           /\ \A t \in lows : \A u \in DOMAIN vol \ lows : vol[t] <= vol[u]
           /\ \A t \in highs : \A u \in DOMAIN vol \ highs : vol[t] >= vol[u]
           /\ \A i \in 1..N : weights.nums[i] * N = weights.den
           /\ \A i \in 1..N : Holdings[i].weight = Round6(1, N)

\* C9 witness: three tickers of three different volatilities were chosen
\* under 'moderate'.
C9_Witness ==
    /\ Returned
    /\ risk_level = "moderate"
    /\ Len(chosen) = 3
    /\ \A i, j \in 1..3 : i # j => vol[chosen[i]] # vol[chosen[j]]

\* C10: for risk level 'high' and N >= 1 the holdings are the N
\* highest-volatility tickers, and of two chosen tickers the one with the
\* larger volatility never has the smaller weight.
C10_HigherVolHigherWeight ==
    (Returned /\ risk_level = "high" /\ NonEmptyTable /\ SelectionSize >= 1) =>
        /\ Len(chosen) = SelectionSize
        /\ \A t \in Range(chosen) : \A u \in DOMAIN vol \ Range(chosen) :
              vol[t] >= vol[u]
        /\ \A i, j \in DOMAIN chosen :
              vol[chosen[i]] > vol[chosen[j]] => weights.nums[i] >= weights.nums[j]

\* C11: for risk level 'low' and N = min(top_n, universe size) >= 1 the
\* holdings are the N lowest-volatility tickers in ascending order of
\* volatility; with N = 1 the one holding has weight 1.0, otherwise the first
\* holding, a ticker of minimum volatility in the universe, has weight 0.8 and
\* each of the other N - 1 holdings has weight 0.2 / (N - 1) (reported to 6
\* decimals).
C11_LowHeavyOnLowestVol ==
    (Returned /\ risk_level = "low" /\ NonEmptyTable /\ SelectionSize >= 1) =>
        LET N == SelectionSize
        IN /\ Len(chosen) = N
           /\ HoldingTickers = chosen
           /\ Cardinality(Range(chosen)) = N
           /\ \A i, j \in 1..N : i < j => vol[chosen[i]] <= vol[chosen[j]]
           /\ \A t \in Range(chosen) : \A u \in DOMAIN vol \ Range(chosen) :
                 vol[t] <= vol[u]
           /\ \A u \in DOMAIN vol : vol[chosen[1]] <= vol[u]
           /\ N = 1 => /\ weights.nums[1] = weights.den
                       /\ Holdings[1].weight = Micro
           /\ N > 1 => /\ 5 * weights.nums[1] = 4 * weights.den
                       /\ Holdings[1].weight = Round6(4, 5)
                       /\ \A i \in 2..N :
                             /\ 5 * (N - 1) * weights.nums[i] = weights.den
                             /\ Holdings[i].weight = Round6(1, 5 * (N - 1))

\* C11 witness: three tickers of three different volatilities were chosen
\* under 'low' out of a table that has them priced, so that the first one
\* holds 0.8 of the weight and buys shares.
C11_Witness ==
    /\ Returned
    /\ risk_level = "low"
    /\ Len(chosen) = 3
    /\ \A i, j \in 1..3 : i # j => vol[chosen[i]] # vol[chosen[j]]
    /\ Holdings[1].weight = 800000
    /\ Holdings[2].weight = 100000
    /\ Holdings[1].shares > 0

(***************************************************************************)
(* Properties of CrewOrchestrator.run and of assess_universe               *)
(***************************************************************************)
RunPcs == {"run", "fallback", "filter", "risk", "portfolio", "explain",
           "json", "done"}
Raised(step) == \E i \in DOMAIN calls : calls[i] = Call(step, FALSE)
Succeeded(step) == \E i \in DOMAIN calls : calls[i] = Call(step, TRUE)
Done == pc = "done"
MarketFailed == Raised("fetch_requested") /\ Raised("fetch_default")

\* C5: run never aborts.  Whatever steps raise, it goes on to a result with
\* the keys portfolio, risk_report, explanation and prices, in which a failed
\* step is replaced by its placeholder; the default universe is fetched only
\* right after the requested fetch raised; the result is marked
\* market_fetch_failed exactly when both fetches raised, and then no later
\* step ran.
C5_RunNeverAborts ==
    /\ pc \in RunPcs
    /\ pc = "run" => ENABLED FetchRequested
    /\ pc = "fallback" => ENABLED FetchDefault
    /\ pc = "filter" => ENABLED Filter
    /\ pc = "risk" => ENABLED Assess
    /\ pc = "portfolio" =>
          GeneratePortfolio(budget, risk_level, top_n, prices_df, risk_report) # {}
    /\ pc = "explain" => ENABLED Explain
    /\ pc = "json" => ENABLED PricesJsonAndReturn
    /\ \A i \in DOMAIN calls :
          calls[i].step = "fetch_default" =>
              i = 2 /\ calls[1] = Call("fetch_requested", FALSE)
    /\ MarketFailed => (Done /\ Len(calls) = 2)
    /\ Done =>
          /\ ResultKeys \subseteq result.keys
          /\ MarketFailed <=> "error" \in result.keys
          /\ MarketFailed <=> result.error = "market_fetch_failed"
          /\ MarketFailed =>
                /\ result.portfolio.keys = {}
                /\ result.risk_report.keys = {}
                /\ result.prices = {}
          /\ Raised("assess_universe") =>
                DOMAIN GetVolatility(result.risk_report) = {}
          /\ Succeeded("assess_universe") =>
                DOMAIN GetVolatility(result.risk_report) = prices_df.cols
          /\ Raised("generate_portfolio") =>
                /\ result.portfolio.holdings = <<>>
                /\ result.portfolio.allocated = 0
                /\ result.portfolio.remaining = budget
          /\ Succeeded("generate_portfolio") => result.portfolio = portfolio
          /\ Raised("explain_portfolio") => result.explanation = FailedText
          /\ Succeeded("explain_portfolio") =>
                /\ result.explanation.text = "Selected tickers"
                /\ result.explanation.tickers = HoldingTickers
          /\ Raised("prices_to_json") => result.prices = {}
          /\ Succeeded("prices_to_json") =>
                result.prices = prices_df.cols \cup {"dates"}

\* C5 witness: the requested fetch raised, the default fetch returned, and
\* every later step raised; run is done.
C5_Witness ==
    /\ Done
    /\ Raised("fetch_requested") /\ Succeeded("fetch_default")
    /\ Raised("assess_universe") /\ Raised("generate_portfolio")
    /\ Raised("explain_portfolio") /\ Raised("prices_to_json")

\* The tickers the user asked for, in upper case.
UserTickers ==
    {Upper(IF universe.kind = "str" THEN Strip(x) ELSE x) :
        x \in Range(universe.items)} \ {""}
\* The fetched columns the user asked for, compared without case.
Matching == {c \in fetched.cols : Upper(c) \in UserTickers}

\* C6: once the prices are filtered, if some fetched column is a requested
\* ticker (without case) the table holds exactly the requested columns, and
\* every ticker of the risk report and of the holdings is a requested one;
\* if none is, the fetched table is used unchanged.
C6_FilteredToRequested ==
    (pc \in {"risk", "portfolio", "explain", "json", "done"} /\ ~MarketFailed) =>
        IF Matching # {}
        THEN /\ prices_df.cols = Matching
             /\ \A t \in Matching : prices_df.last[t] = fetched.last[t]
             /\ \A t \in DOMAIN GetVolatility(risk_report) :
                   Upper(t) \in UserTickers
             /\ \A i \in DOMAIN Holdings :
                   Upper(Holdings[i].ticker) \in UserTickers
        ELSE prices_df = fetched

\* C6 witness: "a, b" was requested, three columns A, b, C were fetched, and
\* the result holds a risk report and holdings for A and b only.
C6_Witness ==
    /\ Done
    /\ universe = [kind |-> "str", items |-> <<"a", " b">>]
    /\ fetched.cols = {"A", "b", "C"}
    /\ DOMAIN GetVolatility(result.risk_report) = {"A", "b"}
    /\ Range(HoldingTickers) = {"A", "b"}

\* C8: in a report of assess_universe every risk score lies in (0, 1], a
\* ticker of higher volatility never has a smaller score, and tickers of
\* equal volatility have equal scores.
C8_RiskScoreMonotone ==
    "risk_score" \in risk_report.keys =>
        LET v == risk_report.volatility
            r == risk_report.risk_score
        IN /\ DOMAIN r = prices_df.cols /\ DOMAIN v = prices_df.cols
           /\ \A t \in DOMAIN r : 0 < r[t].num /\ r[t].num <= r[t].den
           /\ \A t, u \in DOMAIN r :
                 /\ v[t] > v[u] => r[t].num * r[u].den >= r[u].num * r[t].den
                 /\ v[t] = v[u] => r[t].num * r[u].den = r[u].num * r[t].den

\* C8 witness: a report over three tickers, two of them of equal volatility
\* and the third of a higher one.
C8_Witness ==
    /\ "risk_score" \in risk_report.keys
    /\ \E t, u, w \in DOMAIN risk_report.volatility :
          /\ t # u
          /\ risk_report.volatility[t] = risk_report.volatility[u]
          /\ risk_report.volatility[w] > risk_report.volatility[t]

====
